---- MODULE Spec2Model ----
(***************************************************************************)
(* A model of the listening-script generator: AudioGenerator               *)
(* (audio_generator.py) and ScriptGenerator (script_generator.py).         *)
(*                                                                         *)
(* Strings are sequences of one-character strings, so that formatting,     *)
(* joining, suffix tests, lower() and strip() are computed as Python       *)
(* computes them.  Audio is a sequence of chunks with a length in          *)
(* milliseconds, the unit of pydub's len() and slicing.                    *)
(***************************************************************************)
EXTENDS Integers, Sequences, FiniteSets, TLC

(***************************************************************************)
(* Bounds of the model.                                                    *)
(***************************************************************************)
MaxLines == 3        \* lines handed to one instance over its calls
MaxBgLen == 4        \* longest background file of the pure-function check
MaxTarget == 5       \* largest target duration of the pure-function check
MaxEntries == 2      \* longest conversation of a script document
MaxRequests == 2     \* requests sent to the completion endpoint

(***************************************************************************)
(* Python strings.                                                         *)
(***************************************************************************)
DigitChars == <<"0", "1", "2", "3", "4", "5", "6", "7", "8", "9">>

RECURSIVE Str(_)
\* str(i) of a non-negative int, as an f-string formats it
Str(i) ==
    IF i < 10 THEN <<DigitChars[i + 1]>>
    ELSE Str(i \div 10) \o <<DigitChars[(i % 10) + 1]>>

UpperChars == <<"A", "B", "C", "D", "E", "F", "G", "H", "I", "J", "K", "L", "M",
                "N", "O", "P", "Q", "R", "S", "T", "U", "V", "W", "X", "Y", "Z">>

LowerChars == <<"a", "b", "c", "d", "e", "f", "g", "h", "i", "j", "k", "l", "m",
                "n", "o", "p", "q", "r", "s", "t", "u", "v", "w", "x", "y", "z">>

LowerChar(c) ==
    IF \E k \in 1..26 : UpperChars[k] = c
    THEN LowerChars[CHOOSE k \in 1..26 : UpperChars[k] = c]
    ELSE c

\* str.lower()
Lower(s) == [k \in 1..Len(s) |-> LowerChar(s[k])]

\* str.endswith(suffix)
EndsWith(s, suffix) ==
    /\ Len(s) >= Len(suffix)
    /\ SubSeq(s, Len(s) - Len(suffix) + 1, Len(s)) = suffix

IsSpace(c) == c \in {" ", "\t", "\n"}

RECURSIVE LStrip(_)
LStrip(s) == IF s # <<>> /\ IsSpace(Head(s)) THEN LStrip(Tail(s)) ELSE s

RECURSIVE RStrip(_)
RStrip(s) ==
    IF s # <<>> /\ IsSpace(s[Len(s)]) THEN RStrip(SubSeq(s, 1, Len(s) - 1)) ELSE s

\* the text taken as it is
StripNothing(s) == s

\* str.strip()
Strip(s) == RStrip(LStrip(s))

\* os.path.join(directory, name): an absolute name replaces the directory
PathJoin(dir, name) ==
    IF name # <<>> /\ Head(name) = "/" THEN name ELSE dir \o <<"/">> \o name

\* tempfile.mkdtemp(): the instance's directory
temp_dir == <<"/", "t">>

SpeakerPrefix == <<"S", "p", "e", "a", "k", "e", "r">>
TempWavSuffix == <<"_", "t", "e", "m", "p", ".", "w", "a", "v">>
WavSuffix == <<".", "w", "a", "v">>
Mp3Suffix == <<".", "m", "p", "3">>
CombinedName == <<"c", "o", "m", "b", "i", "n", "e", "d", "_", "c", "o", "n", "v",
                  "e", "r", "s", "a", "t", "i", "o", "n", ".", "w", "a", "v">>
UploadedBgPrefix == <<"u", "p", "l", "o", "a", "d", "e", "d", "_", "b", "g", "_">>

\* a key that a dict does not hold (dict.get falls back to its default)
Absent == <<"<absent>">>

(***************************************************************************)
(* pydub audio.  A chunk is a stretch of samples from one source; `under`  *)
(* is what overlay() mixed under it.                                       *)
(***************************************************************************)
Chunk(src, id, len) == [src |-> src, id |-> id, len |-> len, gain |-> 0, under |-> <<>>]

\* AudioSegment.empty()
EmptyAudio == <<>>

\* AudioSegment.silent(duration=ms)
Silent(ms) == <<Chunk("silence", 0, ms)>>

RECURSIVE AudioLen(_)
\* len(segment), in milliseconds
AudioLen(a) == IF a = <<>> THEN 0 ELSE Head(a).len + AudioLen(Tail(a))

RECURSIVE Take(_, _)
\* segment[:ms]
Take(a, ms) ==
    IF a = <<>> \/ ms <= 0 THEN <<>>
    ELSE IF Head(a).len <= ms THEN <<Head(a)>> \o Take(Tail(a), ms - Head(a).len)
    ELSE <<[Head(a) EXCEPT !.len = ms]>>

RECURSIVE Drop(_, _)
\* segment[ms:]
Drop(a, ms) ==
    IF a = <<>> \/ ms <= 0 THEN a
    ELSE IF Head(a).len <= ms THEN Drop(Tail(a), ms - Head(a).len)
    ELSE <<[Head(a) EXCEPT !.len = @ - ms]>> \o Tail(a)

RECURSIVE Repeat(_, _)
\* segment * times
Repeat(a, times) == IF times <= 0 THEN <<>> ELSE a \o Repeat(a, times - 1)

\* segment + db (segment - 20 is Gain(segment, -20)); silence stays silence
Gain(a, db) ==
    [k \in 1..Len(a) |->
        IF a[k].src = "silence" THEN a[k] ELSE [a[k] EXCEPT !.gain = @ + db]]

IsSilence(a) == \A k \in 1..Len(a) : a[k].src = "silence" \/ a[k].len = 0

RECURSIVE Overlay(_, _)
\* seg1.overlay(seg2): seg2 is mixed under seg1 from position 0 and cut at
\* the end of seg1; the result is as long as seg1.  Mixing silence adds
\* zero to every sample and leaves the chunk as it was.
Overlay(a, b) ==
    IF a = <<>> THEN <<>>
    ELSE LET piece == Take(b, Head(a).len)
         IN <<[Head(a) EXCEPT !.under = IF IsSilence(piece) THEN @ ELSE @ \o piece]>>
            \o Overlay(Tail(a), Drop(b, Head(a).len))


(***************************************************************************)
(* The temporary directory.  `files` is the set of paths on disk and       *)
(* `content` the bytes of the files written during the current call: the   *)
(* code reads no file that the same call has not written.                  *)
(***************************************************************************)
FileOf(audio, decodes) == [audio |-> audio, decodes |-> decodes]

\* open(path, "wb").write(...), segment.export(path), the engine's output file
WriteFile(fs, path, c) ==
    [files |-> fs.files \cup {path},
     content |-> [p \in DOMAIN fs.content \cup {path} |->
                    IF p = path THEN c ELSE fs.content[p]],
     written |-> fs.written \cup {path}]

\* os.remove(path)
RemoveFile(fs, path) ==
    [files |-> fs.files \ {path},
     content |-> [p \in DOMAIN fs.content \ {path} |-> fs.content[p]],
     written |-> fs.written]

(***************************************************************************)
(* AudioGenerator: names and keys of one line.                             *)
(***************************************************************************)
\* line.get('speaker', f'Speaker{i}')
LineSpeaker(line, i) ==
    IF line.speaker = Absent THEN SpeakerPrefix \o Str(i) ELSE line.speaker

\* line.get('text', '')
LineText(line) == IF line.text = Absent THEN <<>> ELSE line.text

\* the key without the line's index
IndividualKeyNoIndex(speaker, i) == speaker

\* f"{speaker}_{i}"
IndividualKey(speaker, i) == speaker \o <<"_">> \o Str(i)

\* os.path.join(self.temp_dir, f"{speaker}_{i}_temp.wav")
TempWavFile(speaker, i) ==
    PathJoin(temp_dir, speaker \o <<"_">> \o Str(i) \o TempWavSuffix)

\* os.path.join(self.temp_dir, f"{speaker}_{i}.wav")
IndividualWav(speaker, i) ==
    PathJoin(temp_dir, speaker \o <<"_">> \o Str(i) \o WavSuffix)

\* os.path.join(self.temp_dir, "combined_conversation.wav")
CombinedFile == PathJoin(temp_dir, CombinedName)

\* os.path.join(self.temp_dir, f"uploaded_bg_{uploaded_file.name}")
TempBgFile(name) == PathJoin(temp_dir, UploadedBgPrefix \o name)

\* the pause appended between two clips, in milliseconds
PauseMs == 1000

\* the attenuation of the background, in dB
BackgroundGainDb == 0 - 20

\* speech_config.speech_synthesis_voice_name
DefaultVoice == "en-US-AriaNeural"

\* __init__: the engine is configured when key and region are both non-empty
SpeechConfigOf(key, region) ==
    IF key # "" /\ region # "" THEN DefaultVoice ELSE "None"

\* the voice the synthesizer built from speech_config speaks a line with
VoiceFor(config, speaker) == config

RECURSIVE CombineSegmentsReversed(_)
\* each segment put in front of what was combined so far
CombineSegmentsReversed(segments) ==
    IF segments = <<>> THEN EmptyAudio
    ELSE segments[Len(segments)]
         \o CombineSegmentsReversed(SubSeq(segments, 1, Len(segments) - 1))

\* combined_audio = AudioSegment.empty(); for segment in ...: combined_audio += segment
RECURSIVE CombineSegments(_)
CombineSegments(segments) ==
    IF segments = <<>> THEN EmptyAudio
    ELSE CombineSegments(SubSeq(segments, 1, Len(segments) - 1))
         \o segments[Len(segments)]

\* the pause appended before every clip, the first one too
AppendClipAlwaysPause(segments, clip) ==
    Append(Append(segments, Silent(PauseMs)), clip)

\* if combined_segments: append the pause; then append the clip
AppendClip(segments, clip) ==
    IF segments # <<>>
    THEN Append(Append(segments, Silent(PauseMs)), clip)
    ELSE Append(segments, clip)

\* individual_files[key] = path
SetItem(dict, key, value) ==
    [k \in DOMAIN dict \cup {key} |-> IF k = key THEN value ELSE dict[k]]

EmptyDict == [k \in {} |-> <<>>]


(***************************************************************************)
(* Background track.                                                       *)
(***************************************************************************)
\* what a function returns for "no clip" (Python's None)
NoAudio == [some |-> FALSE, audio |-> <<>>]

SomeAudio(a) == [some |-> TRUE, audio |-> a]

\* a Streamlit uploaded file: its name and the bytes of getbuffer()
Upload(name, len, decodes) ==
    [present |-> TRUE, name |-> name,
     audio |-> <<Chunk("upload", 0, len)>>, decodes |-> decodes]

\* uploaded_background=None
NoUpload == [present |-> FALSE, name |-> <<>>, audio |-> <<>>, decodes |-> FALSE]

\* loops_needed = (target_duration_ms // bg_duration) + 1
LoopsNeededExact(target_duration_ms, bg_duration) ==
    target_duration_ms \div bg_duration

LoopsNeeded(target_duration_ms, bg_duration) ==
    (target_duration_ms \div bg_duration) + 1

\* background_audio = background_audio[:target_duration_ms]
TrimToDuration(background_audio, target_duration_ms) ==
    Take(background_audio, target_duration_ms)

\* the except clause left out: the exception leaves the function
OnLoadErrorRaise(fs) == [ret |-> NoAudio, fs |-> fs, raised |-> TRUE]

\* except Exception: print(...); return None
OnLoadError(fs) == [ret |-> NoAudio, fs |-> fs, raised |-> FALSE]

\* _load_uploaded_background(uploaded_file, target_duration_ms); write_ok is
\* whether open()/write() of the copy succeeds
LoadUploadedBackground(fs, uploaded_file, target_duration_ms, write_ok) ==
    LET temp_bg_file == TempBgFile(uploaded_file.name)
        fs1 == WriteFile(fs, temp_bg_file,
                         FileOf(uploaded_file.audio, uploaded_file.decodes))
        lower == Lower(uploaded_file.name)
        background_audio == fs1.content[temp_bg_file].audio
        bg_duration == AudioLen(background_audio)
    IN  IF ~write_ok THEN OnLoadError(fs)
        ELSE IF ~(EndsWith(lower, Mp3Suffix) \/ EndsWith(lower, WavSuffix))
        THEN OnLoadError(fs1)                       \* ValueError: unsupported format
        ELSE IF ~fs1.content[temp_bg_file].decodes
        THEN OnLoadError(fs1)                       \* from_mp3 / from_wav raises
        ELSE IF bg_duration < target_duration_ms /\ bg_duration = 0
        THEN OnLoadError(fs1)                       \* ZeroDivisionError
        ELSE LET looped ==
                    IF bg_duration < target_duration_ms
                    THEN Repeat(background_audio,
                                LoopsNeeded(target_duration_ms, bg_duration))
                    ELSE background_audio
             IN [ret |-> SomeAudio(TrimToDuration(looped, target_duration_ms)),
                 fs |-> RemoveFile(fs1, temp_bg_file),
                 raised |-> FALSE]

\* the clip the generator layers for a preset
NoiseSource(background_type) ==
    CASE background_type = "classroom" -> "noise_classroom"
      [] background_type = "cafe" -> "noise_cafe"
      [] background_type = "park" -> "noise_park"
      [] background_type = "home" -> "noise_home"
      [] OTHER -> "noise_default"

\* _generate_background_audio(duration_ms, background_type): the layered
\* noise, or silence of the same duration when generation raises
GenerateBackgroundAudio(duration_ms, background_type, gen_ok) ==
    IF gen_ok THEN <<Chunk(NoiseSource(background_type), 0, duration_ms)>>
    ELSE Silent(duration_ms)

\* the background appended instead of mixed under
MixBackgroundAppend(combined_audio, background_audio) ==
    combined_audio \o Gain(background_audio, BackgroundGainDb)

\* combined_audio.overlay(background_audio - 20)
MixBackground(combined_audio, background_audio) ==
    Overlay(combined_audio, Gain(background_audio, BackgroundGainDb))

\* lines 105-122: the background step of generate_conversation_audio
AddBackground(fs, combined_audio, add_bg, bg_type, uploaded, write_ok, gen_ok) ==
    IF ~add_bg THEN [audio |-> combined_audio, fs |-> fs, raised |-> FALSE]
    ELSE IF uploaded.present
    THEN LET got == LoadUploadedBackground(fs, uploaded,
                                           AudioLen(combined_audio), write_ok)
         IN [audio |-> IF got.ret.some /\ AudioLen(got.ret.audio) > 0
                       THEN MixBackground(combined_audio, got.ret.audio)
                       ELSE combined_audio,
             fs |-> got.fs,
             raised |-> got.raised]
    ELSE IF bg_type \notin {"None", "", "none"}
    THEN [audio |-> MixBackground(combined_audio,
                        GenerateBackgroundAudio(AudioLen(combined_audio),
                                                bg_type, gen_ok)),
          fs |-> fs, raised |-> FALSE]
    ELSE [audio |-> combined_audio, fs |-> fs, raised |-> FALSE]


(***************************************************************************)
(* Inputs of generate_conversation_audio.                                  *)
(***************************************************************************)
Line(speaker, text) == [speaker |-> speaker, text |-> text]

\* a speaker label that reads like the start of the name of the copy of an
\* uploaded background (line 149)
BgSpeaker == <<"u", "p", "l", "o", "a", "d", "e", "d", "_", "b", "g">>

Lines ==
    { Line(<<"A">>, <<"h", "i">>),
      Line(BgSpeaker, <<" ", "h", "i">>),
      Line(Absent, <<"h", "i">>),
      Line(<<"A">>, <<" ", "\t">>),
      Line(BgSpeaker, Absent) }

ConversationsUpTo(n) == UNION { [1..k -> Lines] : k \in 0..n }

Uploads ==
    { Upload(<<"0", ".", "w", "a", "v">>, 300, TRUE),           \* shorter than any clip
      Upload(<<"b", "g", ".", "M", "P", "3">>, 9000, TRUE),     \* longer than any conversation
      Upload(<<"b", "g", ".", "w", "a", "v">>, 0, TRUE),        \* zero-length file
      Upload(<<"b", "g", ".", "m", "p", "3">>, 700, FALSE),     \* not decodable
      Upload(<<"b", "g", ".", "o", "g", "g">>, 700, TRUE) }     \* unsupported extension

BackgroundArgs ==
    { [add_background |-> FALSE, background_type |-> "None", uploaded_background |-> NoUpload],
      [add_background |-> TRUE, background_type |-> "None", uploaded_background |-> NoUpload],
      [add_background |-> TRUE, background_type |-> "none", uploaded_background |-> NoUpload],
      [add_background |-> TRUE, background_type |-> "cafe", uploaded_background |-> NoUpload] }
    \cup { [add_background |-> TRUE, background_type |-> "None", uploaded_background |-> u] :
             u \in Uploads }

\* a call's background arguments with what its environment does: write_ok is
\* whether the copy of the upload can be written, gen_ok whether the preset
\* generator runs without an exception (each varies where it is consulted)
BackgroundRuns ==
    { r \in [args : BackgroundArgs, write_ok : BOOLEAN, gen_ok : BOOLEAN] :
        /\ (~r.write_ok) => r.args.uploaded_background.present
        /\ (~r.gen_ok) => /\ ~r.args.uploaded_background.present
                          /\ r.args.background_type \notin {"None", "", "none"} }

\* lengths of the clips the engine returns, in milliseconds
ClipLens == {400, 1500}

\* what speak_text_async(text).get() reports
SynthOutcomes ==
    { [reason |-> "SynthesizingAudioCompleted", detail |-> "", len |-> n] :
        n \in ClipLens }
    \cup { [reason |-> "Canceled", detail |-> "CancellationReason.Error", len |-> 0],
           [reason |-> "ResultReason.NoMatch", detail |-> "", len |-> 0] }

\* a result other than a failure taken for a completed synthesis
CompletedOrCanceled(out) ==
    out.reason \in {"SynthesizingAudioCompleted", "Canceled"}

\* result.reason == speechsdk.ResultReason.SynthesizingAudioCompleted
Completed(out) == out.reason = "SynthesizingAudioCompleted"

\* the value of the call: nothing yet, the returned dict, or the raised error
NoResult == [kind |-> "none", combined |-> <<>>, individual |-> EmptyDict, error |-> <<>>]

Returned(combined_file, individual) ==
    [kind |-> "ok", combined |-> combined_file, individual |-> individual, error |-> <<>>]

\* except Exception as e: raise Exception(f"Failed to generate audio: {e}")
Raised(message) ==
    [kind |-> "error", combined |-> <<>>, individual |-> EmptyDict,
     error |-> <<"Failed to generate audio: ">> \o message]

NotConfiguredMessage ==
    <<"Azure Speech Services not configured. Please set your Azure credentials.">>

NoSegmentsMessage == <<"No valid audio segments generated">>

BackgroundErrorMessage == <<"Error loading uploaded background audio">>

\* the message of the exception raised for a synthesis that did not complete
SynthErrorMessage(out) ==
    IF out.reason = "Canceled"
    THEN <<"Speech synthesis canceled: ", out.detail>>
    ELSE <<"Speech synthesis failed: ", out.reason>>

(***************************************************************************)
(* State.                                                                  *)
(***************************************************************************)
VARIABLES
    azure_speech_key,       \* AudioGenerator.azure_speech_key
    azure_region,           \* AudioGenerator.azure_region
    speech_config,          \* the configured voice, or "None"
    files,                  \* paths that exist on disk
    content,                \* bytes of the files the current call wrote
    written,                \* paths the current call wrote
    lines_used,             \* lines handed to the instance so far
    pc,                     \* "idle", "loop", "return", "cleaned" or "collected"
    conversation,           \* arguments of the current call
    add_background,
    background_type,
    uploaded_background,
    i,                      \* index of the next line of the for loop
    individual_files,       \* local dict of the call
    combined_segments,      \* local list of the call
    synth_log,              \* the calls made to the speech engine
    bg_env,                 \* what the environment did to the background step
    ret,                    \* what the call returns or raises
    load_in,                \* arguments of a _load_uploaded_background call
    load_out,               \* what that call returned
    api_key,                \* ScriptGenerator.api_key ("" for None)
    client,                 \* ScriptGenerator.client: "None" or "client"
    requests,               \* requests sent to the completion endpoint
    script_ret,             \* what generate_script returned or raised
    validate_in,            \* argument of a validate_script call
    validate_ret,           \* what that call returned
    script_data,            \* st.session_state.script_data (no keys: not set)
    audio_files,            \* st.session_state.audio_files (NoResult: not set)
    lines_to_delete,        \* st.session_state.lines_to_delete ({}: not set)
    new_lines_count,        \* st.session_state.new_lines_count (0: not set)
    edit_mode,              \* the checkbox with key "edit_mode"
    shown                   \* what the audio section of the last run showed

avars == <<azure_speech_key, azure_region, speech_config, files, content, written,
           lines_used, pc, conversation, add_background, background_type,
           uploaded_background, i, individual_files, combined_segments,
           synth_log, bg_env, ret>>

lvars == <<load_in, load_out>>

svars == <<api_key, client, requests, script_ret>>

vvars == <<validate_in, validate_ret>>

pvars == <<script_data, audio_files, lines_to_delete, new_lines_count, edit_mode,
           shown>>

vars == <<avars, lvars, svars, vvars, pvars>>

FS == [files |-> files, content |-> content, written |-> written]

\* the environment of a background step that has not run
NoBgEnv == [write_ok |-> TRUE, gen_ok |-> TRUE]

\* AudioGenerator.__init__
AudioInit ==
    /\ azure_speech_key \in {"", "key"}
    /\ azure_region \in {"", "japaneast"}
    /\ speech_config = SpeechConfigOf(azure_speech_key, azure_region)
    /\ files = {}
    /\ content = EmptyDict
    /\ written = {}
    /\ lines_used = 0
    /\ pc = "idle"
    /\ conversation = <<>>
    /\ add_background = FALSE
    /\ background_type = "None"
    /\ uploaded_background = NoUpload
    /\ i = 0
    /\ individual_files = EmptyDict
    /\ combined_segments = <<>>
    /\ synth_log = <<>>
    /\ bg_env = NoBgEnv
    /\ ret = NoResult

\* generate_conversation_audio, lines 39-45: entry and the configuration check
Call ==
    /\ pc = "idle"
    /\ \E conv \in ConversationsUpTo(MaxLines - lines_used) :
        /\ conversation' = conv
        /\ lines_used' = lines_used + Len(conv)
    /\ individual_files' = EmptyDict
    /\ combined_segments' = <<>>
    /\ i' = 0
    /\ IF speech_config = "None"
       THEN /\ ret' = Raised(NotConfiguredMessage)
            /\ pc' = "return"
       ELSE /\ ret' = NoResult
            /\ pc' = "loop"
    /\ UNCHANGED <<azure_speech_key, azure_region, speech_config, files, content,
                   written, synth_log, add_background, background_type,
                   uploaded_background, bg_env>>
    /\ UNCHANGED <<lvars, svars, vvars, pvars>>

\* one iteration of the for loop, lines 48-94
LoopStep ==
    /\ pc = "loop"
    /\ i < Len(conversation)
    /\ LET line == conversation[i + 1]
           speaker == LineSpeaker(line, i)
           text == LineText(line)
           temp_wav_file == TempWavFile(speaker, i)
           individual_wav == IndividualWav(speaker, i)
       IN IF Strip(text) = <<>>
          THEN /\ i' = i + 1
               /\ UNCHANGED <<files, content, written, pc, individual_files,
                              combined_segments, synth_log, ret>>
          ELSE \E out \in SynthOutcomes :
               /\ synth_log' = Append(synth_log,
                      [index |-> i, speaker |-> speaker, text |-> text,
                       voice |-> VoiceFor(speech_config, speaker),
                       reason |-> out.reason, len |-> out.len])
               /\ IF Completed(out)
                  THEN \E fs1 \in {WriteFile(FS, temp_wav_file,
                                             FileOf(<<Chunk("tts", i, out.len)>>, TRUE))} :
                       \E audio_segment \in {fs1.content[temp_wav_file].audio} :
                       \E fs2 \in {WriteFile(fs1, individual_wav,
                                             FileOf(audio_segment, TRUE))} :
                       \E fs3 \in {IF temp_wav_file \in fs2.files
                                    THEN RemoveFile(fs2, temp_wav_file) ELSE fs2} :
                          /\ combined_segments' = AppendClip(combined_segments, audio_segment)
                          /\ individual_files' =
                                SetItem(individual_files, IndividualKey(speaker, i),
                                        individual_wav)
                          /\ files' = fs3.files
                          /\ content' = fs3.content
                          /\ written' = fs3.written
                          /\ i' = i + 1
                          /\ UNCHANGED <<pc, ret>>
                  ELSE LET fs1 == WriteFile(FS, temp_wav_file, FileOf(<<>>, FALSE))
                       IN /\ files' = fs1.files
                          /\ content' = fs1.content
                          /\ written' = fs1.written
                          /\ ret' = Raised(SynthErrorMessage(out))
                          /\ pc' = "return"
                          /\ UNCHANGED <<i, individual_files, combined_segments>>
    /\ UNCHANGED <<azure_speech_key, azure_region, speech_config, lines_used,
                   conversation, add_background, background_type, uploaded_background,
                   bg_env>>
    /\ UNCHANGED <<lvars, svars, vvars, pvars>>

\* lines 96-131: combine, add the background, export, return.  The three
\* background arguments of the call are read here for the first time (line
\* 105), and this is where the model draws them.  Each local is bound once,
\* as a value, by a quantifier over a one-element set.
Finish ==
    /\ pc = "loop"
    /\ i = Len(conversation)
    /\ IF combined_segments = <<>>
       THEN /\ ret' = Raised(NoSegmentsMessage)
            /\ UNCHANGED <<files, content, written, add_background,
                           background_type, uploaded_background, bg_env>>
       ELSE \E run \in BackgroundRuns :
            \E args \in {run.args} :
            \E combined_audio \in {CombineSegments(combined_segments)} :
            \E bg \in {AddBackground(FS, combined_audio, args.add_background,
                                     args.background_type, args.uploaded_background,
                                     run.write_ok, run.gen_ok)} :
            \E fs1 \in {WriteFile(bg.fs, CombinedFile, FileOf(bg.audio, TRUE))} :
               /\ bg_env' = [write_ok |-> run.write_ok, gen_ok |-> run.gen_ok]
               /\ add_background' = args.add_background
               /\ background_type' = args.background_type
               /\ uploaded_background' = args.uploaded_background
               /\ IF bg.raised
                  THEN /\ ret' = Raised(BackgroundErrorMessage)
                       /\ files' = bg.fs.files
                       /\ content' = bg.fs.content
                       /\ written' = bg.fs.written
                  ELSE /\ ret' = Returned(CombinedFile, individual_files)
                       /\ files' = fs1.files
                       /\ content' = fs1.content
                       /\ written' = fs1.written
    /\ pc' = "return"
    /\ UNCHANGED <<azure_speech_key, azure_region, speech_config, lines_used,
                   conversation, i, individual_files, combined_segments, synth_log>>
    /\ UNCHANGED <<lvars, svars, vvars, pvars>>

\* the call has returned or raised: its frame is gone, the directory stays.
\* The caller keeps a returned dict until its next call; a raised error
\* leaves it with nothing.
Return ==
    /\ pc = "return"
    /\ pc' = "idle"
    /\ conversation' = <<>>
    /\ add_background' = FALSE
    /\ background_type' = "None"
    /\ uploaded_background' = NoUpload
    /\ i' = 0
    /\ individual_files' = EmptyDict
    /\ combined_segments' = <<>>
    /\ synth_log' = <<>>
    /\ bg_env' = NoBgEnv
    /\ content' = EmptyDict
    /\ written' = {}
    /\ ret' = IF ret.kind = "ok" THEN ret ELSE NoResult
    /\ UNCHANGED <<azure_speech_key, azure_region, speech_config, files, lines_used>>
    /\ UNCHANGED <<lvars, svars, vvars, pvars>>

\* str.startswith(prefix)
StartsWith(s, prefix) ==
    /\ Len(s) >= Len(prefix)
    /\ SubSeq(s, 1, Len(prefix)) = prefix

\* shutil.rmtree(self.temp_dir, ignore_errors=True): what is left on disk
RemoveTree(paths, dir) == { p \in paths : ~StartsWith(p, dir \o <<"/">>) }

\* cleanup(), lines 294-300, called by the owner of the generator; the
\* model ends the life of the generator there
Cleanup ==
    /\ pc = "idle"
    /\ pc' = "cleaned"
    /\ files' = RemoveTree(files, temp_dir)
    /\ UNCHANGED <<azure_speech_key, azure_region, speech_config, content, written,
                   lines_used, conversation, add_background, background_type,
                   uploaded_background, i, individual_files, combined_segments,
                   synth_log, bg_env, ret>>
    /\ UNCHANGED <<lvars, svars, vvars, pvars>>

\* __del__, lines 302-304: the owner has dropped the generator (the page
\* binds audio_gen to a new one in every run, app.py line 53) and Python
\* destroys it
Del ==
    /\ pc = "idle"
    /\ pc' = "collected"
    /\ files' = RemoveTree(files, temp_dir)
    /\ UNCHANGED <<azure_speech_key, azure_region, speech_config, content, written,
                   lines_used, conversation, add_background, background_type,
                   uploaded_background, i, individual_files, combined_segments,
                   synth_log, bg_env, ret>>
    /\ UNCHANGED <<lvars, svars, vvars, pvars>>

\* the generator before any call, for the specifications of the other parts
AudioIdle ==
    /\ azure_speech_key = ""
    /\ azure_region = ""
    /\ speech_config = SpeechConfigOf(azure_speech_key, azure_region)
    /\ files = {}
    /\ content = EmptyDict
    /\ written = {}
    /\ lines_used = 0
    /\ pc = "idle"
    /\ conversation = <<>>
    /\ add_background = FALSE
    /\ background_type = "None"
    /\ uploaded_background = NoUpload
    /\ i = 0
    /\ individual_files = EmptyDict
    /\ combined_segments = <<>>
    /\ synth_log = <<>>
    /\ bg_env = NoBgEnv
    /\ ret = NoResult

(***************************************************************************)
(* _load_uploaded_background as a function of its arguments, over every    *)
(* file length and target duration up to the bounds.                       *)
(***************************************************************************)
UploadNames ==
    { <<"b", "g", ".", "w", "a", "v">>,
      <<"b", "g", ".", "M", "P", "3">>,
      <<"b", "g", ".", "o", "g", "g">> }

EmptyFS == [files |-> {}, content |-> EmptyDict, written |-> {}]

NotCalled == [ret |-> NoAudio, fs |-> EmptyFS, raised |-> FALSE, called |-> FALSE]

LoadIdle ==
    /\ load_in = [uploaded_file |-> NoUpload, target_duration_ms |-> 0, write_ok |-> TRUE]
    /\ load_out = NotCalled

LoadInit ==
    /\ load_in \in [uploaded_file : { Upload(n, len, d) : n \in UploadNames,
                                        len \in 0..MaxBgLen, d \in BOOLEAN },
                    target_duration_ms : 0..MaxTarget,
                    write_ok : BOOLEAN]
    /\ load_out = NotCalled

\* the call _load_uploaded_background(uploaded_file, target_duration_ms)
LoadBackground ==
    /\ ~load_out.called
    /\ LET got == LoadUploadedBackground(EmptyFS, load_in.uploaded_file,
                                         load_in.target_duration_ms, load_in.write_ok)
       IN load_out' = [ret |-> got.ret, fs |-> got.fs, raised |-> got.raised,
                       called |-> TRUE]
    /\ UNCHANGED <<load_in, avars, svars, vvars, pvars>>


(***************************************************************************)
(* ScriptGenerator: documents.  A document is a dict; a field holds Absent *)
(* when the dict has no such key.  `conversation` is a list of entries, or *)
(* some other JSON value.  An entry is a dict, or some other JSON value.   *)
(***************************************************************************)
EntryValues ==
    { [isdict |-> FALSE, speaker |-> Absent, text |-> Absent] }
    \cup { [isdict |-> TRUE, speaker |-> sp, text |-> tx] :
             sp \in {Absent, <<"A">>}, tx \in {Absent, <<"h", "i">>} }

ConversationValues ==
    { [kind |-> "absent", items |-> <<>>], [kind |-> "other", items |-> <<>>] }
    \cup { [kind |-> "list", items |-> q] :
             q \in UNION { [1..k -> EntryValues] : k \in 0..MaxEntries } }

Documents ==
    [title : {Absent, <<"t">>}, situation : {Absent, <<"s">>},
     conversation : ConversationValues]

\* key in dict
HasKey(doc, key) ==
    CASE key = "title" -> doc.title # Absent
      [] key = "situation" -> doc.situation # Absent
      [] key = "conversation" -> doc.conversation.kind # "absent"

\* required_fields = ["title", "situation", "conversation"]
RequiredFields == {"title", "situation", "conversation"}

\* the test of one line with "text" forgotten
LineCheckNoText(line) ==
    IF ~line.isdict THEN "bad"
    ELSE IF line.speaker = Absent THEN "bad"
    ELSE "ok"

\* not isinstance(line, dict) or "speaker" not in line or "text" not in line
LineCheck(line) ==
    IF ~line.isdict THEN "bad"
    ELSE IF line.speaker = Absent \/ line.text = Absent THEN "bad"
    ELSE "ok"

\* validate_script(script_data), script_data being doc: "True" or "False"
ValidateScript(doc) ==
    IF ~(\A field \in RequiredFields : HasKey(doc, field)) THEN "False"
    ELSE IF doc.conversation.kind # "list" THEN "False"
    ELSE LET items == doc.conversation.items
         IN IF \E k \in 1..Len(items) : LineCheck(items[k]) # "ok"
            THEN "False"                       \* the loop returns at that line
            ELSE "True"

(***************************************************************************)
(* ScriptGenerator.generate_script                                         *)
(***************************************************************************)
NoDocument ==
    [title |-> Absent, situation |-> Absent,
     conversation |-> [kind |-> "absent", items |-> <<>>]]

\* what the completion endpoint answers: an API error, an empty content,
\* text that is not JSON, a JSON array, or a JSON object
Responses ==
    { [kind |-> k, doc |-> NoDocument] :
        k \in {"api_error", "empty", "not_json", "json_array"} }
    \cup { [kind |-> "json_object", doc |-> d] : d \in Documents }

NoScript == [kind |-> "none", doc |-> NoDocument, error |-> <<>>]

ScriptReturned(doc) == [kind |-> "ok", doc |-> doc, error |-> <<>>]

ScriptRaised(message) == [kind |-> "error", doc |-> NoDocument, error |-> message]

\* lines 70-87: what generate_script makes of the response
ParseResponse(response) ==
    IF response.kind = "api_error"
    THEN ScriptRaised(<<"Failed to generate script: ", "APIError">>)
    ELSE IF response.kind = "empty"
    THEN ScriptRaised(<<"Failed to generate script: ", "Empty response from OpenAI API">>)
    ELSE IF response.kind = "not_json"
    THEN ScriptRaised(<<"Failed to parse OpenAI response: ", "JSONDecodeError">>)
    ELSE IF response.kind = "json_array"
    THEN ScriptRaised(<<"Failed to generate script: ",
                        "Invalid response structure from OpenAI API">>)
    ELSE IF ~(\A key \in RequiredFields : HasKey(response.doc, key))
    THEN ScriptRaised(<<"Failed to generate script: ",
                        "Invalid response structure from OpenAI API">>)
    ELSE IF response.doc.conversation.kind # "list"
            \/ Len(response.doc.conversation.items) = 0
    THEN ScriptRaised(<<"Failed to generate script: ", "Invalid conversation format">>)
    ELSE ScriptReturned(response.doc)

ScriptIdle ==
    /\ api_key = ""
    /\ client = "None"
    /\ requests = 0
    /\ script_ret = NoScript

\* a client built whether or not there is a key
ClientAlways(key) == "client"

\* __init__, lines 9-12: no client without a key
ClientOf(key) == IF key = "" THEN "None" ELSE "client"

\* raise ValueError("OpenAI API key is required. ...")
ApiKeyRequiredMessage ==
    <<"OpenAI API key is required. Please set your API key first.">>

\* ScriptGenerator.__init__(api_key): api_key or os.environ.get("OPENAI_API_KEY")
ScriptInit ==
    /\ \E ctor_key \in {"", "sk-ctor"}, env_key \in {"", "sk-env"} :
          api_key = IF ctor_key # "" THEN ctor_key ELSE env_key
    /\ client = ClientOf(api_key)
    /\ requests = 0
    /\ script_ret = NoScript

\* set_api_key(api_key)
SetApiKey ==
    /\ \E key \in {"sk-set"} : api_key' = key
    /\ client' = "client"
    /\ UNCHANGED <<requests, script_ret, avars, lvars, vvars, pvars>>

\* generate_script(scene_description)
GenerateScript ==
    /\ IF client = "None"
       THEN /\ script_ret' = ScriptRaised(ApiKeyRequiredMessage)
            /\ UNCHANGED requests
       ELSE /\ requests < MaxRequests
            /\ requests' = requests + 1
            /\ \E response \in Responses : script_ret' = ParseResponse(response)
    /\ UNCHANGED <<api_key, client, avars, lvars, vvars, pvars>>

ValidateIdle ==
    /\ validate_in = NoDocument
    /\ validate_ret = "none"

ValidateInit ==
    /\ validate_in \in Documents
    /\ validate_ret = "none"

\* the call validate_script(script_data)
Validate ==
    /\ validate_ret = "none"
    /\ validate_ret' = ValidateScript(validate_in)
    /\ UNCHANGED <<validate_in, avars, lvars, svars, pvars>>

(***************************************************************************)
(* The Streamlit page (app.py).  Every interaction of the user reruns      *)
(* main() from its first line; one action is one such run.  The session    *)
(* state outlives the runs; the two generators are built anew in each run  *)
(* (lines 52-53) and dropped at its end.  The values of the widgets are    *)
(* inputs of the run that reads them: the user can have typed anything     *)
(* into a field the page shows.                                            *)
(***************************************************************************)
MaxSessionLines == 2     \* lines of a conversation under edit, new ones included

\* a conversation entry that is a dict
EntryOf(speaker, text) == [isdict |-> TRUE, speaker |-> speaker, text |-> text]

UnknownSpeaker == <<"U", "n", "k", "n", "o", "w", "n">>

\* line.get('speaker', 'Unknown'), line.get('text', ''): the values the
\* edit widgets of a line start from
FieldsOf(line) ==
    [speaker |-> IF line.speaker = Absent THEN UnknownSpeaker ELSE line.speaker,
     text |-> IF line.text = Absent THEN <<>> ELSE line.text]

\* what the user may type into a speaker or a text field
EditSpeakers == {<<"A">>}

EditTexts == {<<>>, <<"h", "i">>}

\* what the widgets of a line can hold: what they started from, or what the
\* user typed
FieldValues(line) ==
    {FieldsOf(line)} \cup [speaker : EditSpeakers, text : EditTexts]

\* what the widgets of a new line can hold: they start empty
NewFieldValues == [speaker : EditSpeakers, text : EditTexts]

\* what the user may type into the scene field
Scenes == {<<" ">>, <<"c", "a", "f", "e">>}

\* a JSON object with its three keys and the given conversation
ScriptOf(items) ==
    [kind |-> "json_object",
     doc |-> [title |-> <<"t">>, situation |-> <<"s">>,
              conversation |-> [kind |-> "list", items |-> items]]]

\* what the completion endpoint answers to the page: an API error, or a
\* script of one or two lines, of a line without text, or with an entry
\* that is no dict
AppResponses ==
    { [kind |-> "api_error", doc |-> NoDocument],
      ScriptOf(<<EntryOf(<<"A">>, <<"h", "i">>)>>),
      ScriptOf(<<EntryOf(<<"A">>, <<"h", "i">>), EntryOf(<<"A">>, <<"h", "i">>)>>),
      ScriptOf(<<EntryOf(<<"A">>, Absent)>>),
      ScriptOf(<<[isdict |-> FALSE, speaker |-> Absent, text |-> Absent]>>) }

\* hasattr(st.session_state, 'script_data') and st.session_state.script_data
HasScript(doc) == doc # NoDocument

\* line.get(...) of lines 151 and 266 works on dicts only: any other entry
\* raises AttributeError and ends the run there
Renders(doc) ==
    \A k \in 1..Len(doc.conversation.items) : doc.conversation.items[k].isdict

\* the edit widgets of the lines: one choice of values for each line
EditFields(doc) ==
    { f \in [1..Len(doc.conversation.items) ->
                UNION { FieldValues(doc.conversation.items[k]) :
                          k \in 1..Len(doc.conversation.items) }] :
        \A k \in 1..Len(doc.conversation.items) :
            f[k] \in FieldValues(doc.conversation.items[k]) }

\* the widgets of the new lines
NewFields(count) == [1..count -> NewFieldValues]

RECURSIVE KeptLines(_, _, _)
\* lines 145-186: the lines not marked for deletion, with the widgets' values;
\* k is the index of the first of `fields`
KeptLines(fields, k, deleted) ==
    IF fields = <<>> THEN <<>>
    ELSE (IF k \in deleted THEN <<>>
          ELSE <<EntryOf(Head(fields).speaker, Head(fields).text)>>)
         \o KeptLines(Tail(fields), k + 1, deleted)

\* lines 197-226: the new lines whose speaker and text are both filled in
AddedLines(news) ==
    LET filled == SelectSeq(news, LAMBDA f : f.speaker # <<>> /\ f.text # <<>>)
    IN [k \in 1..Len(filled) |-> EntryOf(filled[k].speaker, filled[k].text)]

\* edited_conversation at the save button
EditedConversation(fields, deleted, news) ==
    KeptLines(fields, 0, deleted) \o AddedLines(news)

\* the parameters of generate_conversation_audio (audio_generator.py line 26)
GenerateAudioParameters ==
    {"conversation", "add_background", "background_type", "uploaded_background"}

\* the keywords of the call of lines 282-288
AppKeywords ==
    {"add_background", "background_type", "uploaded_background", "background_volume"}

\* the TypeError Python raises when a call passes a keyword the function
\* does not have; it is raised at the call, outside the function's try
UnexpectedKeywordError(keyword) ==
    [kind |-> "error", combined |-> <<>>, individual |-> EmptyDict,
     error |-> <<"generate_conversation_audio() got an unexpected keyword argument '",
                 keyword, "'">>]

\* audio_gen.generate_conversation_audio(..., background_volume=...): the
\* call binds its keywords first; the body (Call and what follows it) would
\* start with the configuration check of lines 44-45
CallFromApp(config) ==
    IF AppKeywords \subseteq GenerateAudioParameters
    THEN IF config = "None" THEN Raised(NotConfiguredMessage) ELSE NoResult
    ELSE UnexpectedKeywordError(CHOOSE k \in AppKeywords \ GenerateAudioParameters : TRUE)

\* needle in str(e), for the pieces a message is made of
Mentions(error, needle) ==
    \E k \in 1..Len(error) :
        <<error[k], needle>> \in
            { <<"Azure Speech Services not configured. Please set your Azure credentials.",
                "Azure Speech Services not configured">> }

NoMessage == [kind |-> "none", text |-> <<>>]

\* lines 290-305: what the page shows for the outcome of the call
ShownFor(result) ==
    IF result.kind = "ok" THEN [kind |-> "success", text |-> <<>>]
    ELSE IF result.kind = "none" THEN [kind |-> "failed", text |-> <<>>]
    ELSE IF \/ Mentions(result.error, "Azure Speech Services not configured")
            \/ Mentions(result.error, "SPXERR_INVALID_ARG")
    THEN [kind |-> "credential", text |-> <<>>]
    ELSE IF Mentions(result.error, "429") \/ Mentions(result.error, "Too Many Requests")
    THEN [kind |-> "rate_limit", text |-> <<>>]
    ELSE [kind |-> "raw", text |-> result.error]

\* the session of a page nobody has used yet
AppIdle ==
    /\ script_data = NoDocument
    /\ audio_files = NoResult
    /\ lines_to_delete = {}
    /\ new_lines_count = 0
    /\ edit_mode = FALSE
    /\ shown = NoMessage

\* what the runs of the page leave alone: the generators of a run are
\* dropped at its end, with what generate_script returned and the count of
\* its requests
AppFrame ==
    UNCHANGED <<files, content, written, lines_used, pc, conversation,
                add_background, background_type, uploaded_background, i,
                individual_files, combined_segments, synth_log, bg_env, ret,
                requests, script_ret, lvars, vvars>>

\* what the user may have in the Azure key and region fields
AzureInputs == {<<"", "">>, <<"key", "">>, <<"key", "japaneast">>}

\* the fields of the page a run does not touch
AppKeys == <<api_key, client, azure_speech_key, azure_region, speech_config>>

\* a run after the user changed one of the three credential fields
\* (lines 23-53): without an OpenAI key the run stops at line 46, builds no
\* generator and renders nothing below, so that the checkbox loses its value
AppEnterKeys ==
    /\ \E key \in {"", "sk-ui"}, azure \in AzureInputs :
       LET speech_key == azure[1]
           region == azure[2]
       IN
        /\ <<key, speech_key, region>> # <<api_key, azure_speech_key, azure_region>>
        /\ api_key' = key
        /\ client' = ClientOf(key)
        /\ azure_speech_key' = speech_key
        /\ azure_region' = region
        /\ speech_config' = IF key = "" THEN "None" ELSE SpeechConfigOf(speech_key, region)
        /\ edit_mode' = IF key = "" THEN FALSE ELSE edit_mode
    /\ shown' = NoMessage
    /\ UNCHANGED <<script_data, audio_files, lines_to_delete, new_lines_count>>
    /\ AppFrame

\* the script button, lines 95-111
AppGenerateScript ==
    /\ api_key # ""
    /\ \E scene \in Scenes :
        IF Strip(scene) = <<>>
        THEN UNCHANGED script_data
        ELSE \E response \in AppResponses :
                LET got == ParseResponse(response)
                IN script_data' = IF got.kind = "ok" THEN got.doc ELSE script_data
    /\ shown' = NoMessage
    /\ UNCHANGED <<AppKeys, audio_files, lines_to_delete, new_lines_count, edit_mode>>
    /\ AppFrame

\* the checkbox of line 120
AppToggleEdit ==
    /\ api_key # ""
    /\ HasScript(script_data)
    /\ edit_mode' = ~edit_mode
    /\ shown' = NoMessage
    /\ UNCHANGED <<AppKeys, script_data, audio_files, lines_to_delete, new_lines_count>>
    /\ AppFrame

\* the delete button of a line, lines 173-178, and the run st.rerun() starts
AppDeleteLine ==
    /\ api_key # ""
    /\ edit_mode /\ HasScript(script_data) /\ Renders(script_data)
    /\ \E k \in 0..(Len(script_data.conversation.items) - 1) :
        /\ k \notin lines_to_delete
        /\ lines_to_delete' = lines_to_delete \cup {k}
    /\ shown' = NoMessage
    /\ UNCHANGED <<AppKeys, script_data, audio_files, new_lines_count, edit_mode>>
    /\ AppFrame

\* the add button, lines 189-193, and the run st.rerun() starts
AppAddLine ==
    /\ api_key # ""
    /\ edit_mode /\ HasScript(script_data) /\ Renders(script_data)
    /\ Len(script_data.conversation.items) + new_lines_count < MaxSessionLines
    /\ new_lines_count' = new_lines_count + 1
    /\ shown' = NoMessage
    /\ UNCHANGED <<AppKeys, script_data, audio_files, lines_to_delete, edit_mode>>
    /\ AppFrame

\* the save button, lines 231-247, and the run st.rerun() starts; fields
\* and news are what the widgets of the lines and of the new lines hold
AppSave ==
    /\ api_key # ""
    /\ edit_mode /\ HasScript(script_data) /\ Renders(script_data)
    /\ \E edited_conversation \in
            { EditedConversation(fields, lines_to_delete, news) :
                fields \in EditFields(script_data),
                news \in NewFields(new_lines_count) } :
        script_data' =
            [title |-> script_data.title,
             situation |-> script_data.situation,
             conversation |-> [kind |-> "list", items |-> edited_conversation]]
    /\ lines_to_delete' = {}
    /\ new_lines_count' = 0
    /\ audio_files' = NoResult
    /\ shown' = NoMessage
    /\ UNCHANGED <<AppKeys, edit_mode>>
    /\ AppFrame

\* the revert button, lines 250-256, and the run st.rerun() starts
AppRevert ==
    /\ api_key # ""
    /\ edit_mode /\ HasScript(script_data) /\ Renders(script_data)
    /\ lines_to_delete' = {}
    /\ new_lines_count' = 0
    /\ shown' = NoMessage
    /\ UNCHANGED <<AppKeys, script_data, audio_files, edit_mode>>
    /\ AppFrame

\* the audio button, lines 276-305
AppGenerateAudio ==
    /\ api_key # ""
    /\ HasScript(script_data) /\ Renders(script_data)
    /\ LET result == CallFromApp(speech_config)
       IN /\ audio_files' = IF result.kind = "ok" THEN result ELSE audio_files
          /\ shown' = ShownFor(result)
    /\ UNCHANGED <<AppKeys, script_data, lines_to_delete, new_lines_count, edit_mode>>
    /\ AppFrame

(***************************************************************************)
(* Specifications.                                                         *)
(***************************************************************************)
Init == AudioInit /\ LoadIdle /\ ScriptIdle /\ ValidateIdle /\ AppIdle

Next == Call \/ LoopStep \/ Finish \/ Return \/ Cleanup \/ Del

\* the audio generator
Spec == Init /\ [][Next]_vars

LoadNext == LoadBackground

\* _load_uploaded_background on every input up to the bounds
InitLoad == AudioIdle /\ LoadInit /\ ScriptIdle /\ ValidateIdle /\ AppIdle

SpecLoad == InitLoad /\ [][LoadNext]_vars

ScriptNext == SetApiKey \/ GenerateScript

\* the script generator
InitScript == AudioIdle /\ LoadIdle /\ ScriptInit /\ ValidateIdle /\ AppIdle

SpecScript == InitScript /\ [][ScriptNext]_vars

ValidateNext == Validate

\* validate_script on every document up to the bounds
InitValidate == AudioIdle /\ LoadIdle /\ ScriptIdle /\ ValidateInit /\ AppIdle

SpecValidate == InitValidate /\ [][ValidateNext]_vars

AppNext ==
    \/ AppEnterKeys \/ AppGenerateScript \/ AppToggleEdit \/ AppDeleteLine
    \/ AppAddLine \/ AppSave \/ AppRevert \/ AppGenerateAudio

\* the page
InitApp == AudioIdle /\ LoadIdle /\ ScriptIdle /\ ValidateIdle /\ AppIdle

SpecApp == InitApp /\ [][AppNext]_vars



(***************************************************************************)
(* Properties of generate_conversation_audio.                              *)
(***************************************************************************)
\* a line without text, or whose text is made of whitespace only
BlankLine(line) ==
    \/ line.text = Absent
    \/ \A k \in 1..Len(line.text) : line.text[k] \in {" ", "\t", "\n"}

\* the 0-based positions of the lines whose trimmed text is not empty
SpokenIndices(conv) == { k \in 0..(Len(conv) - 1) : ~BlankLine(conv[k + 1]) }

RECURSIVE ClipLenSum(_)
\* the sum of the lengths of the clips the engine returned
ClipLenSum(log) ==
    IF log = <<>> THEN 0 ELSE Head(log).len + ClipLenSum(Tail(log))

\* the call is at its return statement
Succeeded == pc = "return" /\ ret.kind = "ok"

\* the audio in the combined file of the result
CombinedAudio == content[ret.combined].audio

\* C1: when the call returns, the combined audio is as long as the N clips
\* of the N lines with non-empty trimmed text plus (N - 1) pauses of 1000 ms,
\* wherever the empty lines stand.
C1_CombinedLength ==
    Succeeded =>
        LET N == Cardinality(SpokenIndices(conversation))
        IN /\ N >= 1
           /\ Len(synth_log) = N
           /\ AudioLen(CombinedAudio) = ClipLenSum(synth_log) + (N - 1) * 1000

\* a returned call of three lines, the middle one empty, whose two clips
\* differ in length
C1_Witness ==
    /\ Succeeded
    /\ Len(conversation) = 3
    /\ SpokenIndices(conversation) = {0, 2}
    /\ synth_log[1].len # synth_log[2].len

\* C2: the returned 'individual' map holds exactly one entry for each line
\* with non-empty trimmed text, under the key '<speaker>_<index>' with the
\* line's position in the conversation, no two lines under one key, and
\* nothing from an earlier call on the instance.
C2_IndividualKeys ==
    Succeeded =>
        LET spoken == SpokenIndices(conversation)
            KeyOf(k) == LineSpeaker(conversation[k + 1], k) \o <<"_">> \o Str(k)
        IN /\ Cardinality(DOMAIN ret.individual) = Cardinality(spoken)
           /\ DOMAIN ret.individual = { KeyOf(k) : k \in spoken }
           /\ \A k1 \in spoken, k2 \in spoken : k1 # k2 => KeyOf(k1) # KeyOf(k2)

\* a returned call with two lines by one speaker, on an instance whose
\* earlier call left the file of another speaker's line
C2_Witness ==
    /\ Succeeded
    /\ Len(conversation) = 2
    /\ SpokenIndices(conversation) = {0, 1}
    /\ conversation[1].speaker = conversation[2].speaker
    /\ lines_used > Len(conversation)
    /\ IndividualWav(BgSpeaker, 0) \in files
    /\ conversation[1].speaker = <<"A">>

\* C3: in one run, lines with the same speaker label are synthesized with
\* the same voice and lines with different labels with different voices.
C3_VoicePerSpeaker ==
    \A j \in 1..Len(synth_log), k \in 1..Len(synth_log) :
        /\ synth_log[j].speaker = synth_log[k].speaker
              => synth_log[j].voice = synth_log[k].voice
        /\ synth_log[j].speaker # synth_log[k].speaker
              => synth_log[j].voice # synth_log[k].voice


\* C4: with the engine configured, a call on a conversation whose every
\* line has an empty or whitespace text (or that has no line) raises the
\* no-segments error, asks the engine for nothing and writes no file.
C4_EmptyConversationFails ==
    (pc = "return" /\ speech_config # "None" /\ SpokenIndices(conversation) = {})
        => /\ ret.kind = "error"
           /\ ret.error = <<"Failed to generate audio: ",
                            "No valid audio segments generated">>
           /\ synth_log = <<>>
           /\ written = {}

\* a call on two lines, one of whitespace and one without text, has raised
C4_Witness ==
    /\ pc = "return"
    /\ speech_config # "None"
    /\ Len(conversation) = 2
    /\ conversation[1].text = <<" ", "\t">>
    /\ conversation[2].text = Absent
    /\ ret.kind = "error"

\* C5: a synthesis reported as canceled or failed is the last one of the
\* call; the call raises an error that carries the engine's reason, returns
\* neither a combined path nor a per-line entry, and does not write the
\* combined file.
C5_SynthesisFailureAborts ==
    \A k \in 1..Len(synth_log) :
        synth_log[k].reason # "SynthesizingAudioCompleted"
            => /\ k = Len(synth_log)
               /\ pc = "return"
               /\ ret.kind = "error"
               /\ ret.error[Len(ret.error)] \in {"CancellationReason.Error", synth_log[k].reason}
               /\ ret.combined = <<>>
               /\ DOMAIN ret.individual = {}
               /\ CombinedFile \notin written

\* the second line of three was canceled after the first had been exported
C5_Witness ==
    /\ pc = "return"
    /\ Len(conversation) = 3
    /\ SpokenIndices(conversation) = {0, 1, 2}
    /\ Len(synth_log) = 2
    /\ synth_log[2].reason = "Canceled"
    /\ IndividualWav(<<"A">>, 0) \in written

\* C15: the combined audio of a returned call is the clips of the lines with
\* non-empty trimmed text, in the order of the conversation, with one pause
\* of 1000 ms between two clips that follow each other and nothing before
\* the first clip or after the last, wherever the skipped lines stand.
C15_ClipsAndPauses ==
    Succeeded =>
        LET spoken == SpokenIndices(conversation)
            N == Cardinality(spoken)
            audio == CombinedAudio
        IN /\ Len(audio) = 2 * N - 1
           /\ \A k \in spoken :
                LET j == Cardinality({ m \in spoken : m <= k })
                IN /\ audio[2 * j - 1].src = "tts"
                   /\ audio[2 * j - 1].id = k
                   /\ audio[2 * j - 1].len = synth_log[j].len
                   /\ synth_log[j].index = k
           /\ \A j \in 1..(N - 1) :
                /\ audio[2 * j].src = "silence"
                /\ audio[2 * j].len = 1000

\* a returned call of three lines whose first line is skipped: the clips of
\* the second and third line with one pause between them
C15_Witness ==
    /\ Succeeded
    /\ Len(conversation) = 3
    /\ SpokenIndices(conversation) = {1, 2}
    /\ Len(CombinedAudio) = 3
    /\ CombinedAudio[1].id = 1
    /\ CombinedAudio[3].id = 2

\* what the same call exports when add_background is False
WithoutBackground ==
    AddBackground(FS, CombineSegments(combined_segments), FALSE, background_type,
                  uploaded_background, TRUE, TRUE).audio

\* C6: the combined audio of a call with add_background=True is as long as
\* that of the same conversation and clips with add_background=False.
C6_BackgroundKeepsLength ==
    (Succeeded /\ add_background)
        => AudioLen(CombinedAudio) = AudioLen(WithoutBackground)

\* a returned call whose combined audio has an uploaded background, shorter
\* than the conversation, mixed under its second chunk
C6_Witness ==
    /\ Succeeded
    /\ add_background
    /\ uploaded_background.present
    /\ AudioLen(uploaded_background.audio) < AudioLen(CombinedAudio)
    /\ Len(CombinedAudio) >= 2
    /\ CombinedAudio[2].under # <<>>

\* the background step of the call did not obtain a track
BackgroundFailed ==
    /\ add_background
    /\ IF uploaded_background.present
       THEN \/ ~bg_env.write_ok
            \/ ~uploaded_background.decodes
            \/ AudioLen(uploaded_background.audio) = 0
            \/ uploaded_background.name = <<"b", "g", ".", "o", "g", "g">>
       ELSE background_type \notin {"None", "", "none"} /\ ~bg_env.gen_ok

\* every line with text was synthesized
AllSynthesized ==
    /\ Len(synth_log) = Cardinality(SpokenIndices(conversation))
    /\ Len(synth_log) >= 1
    /\ \A k \in 1..Len(synth_log) : synth_log[k].reason = "SynthesizingAudioCompleted"

\* C8: when every line was synthesized and the background track could not
\* be obtained, the call still returns, and its combined audio is the one
\* it produces without background.
C8_BackgroundFailureSwallowed ==
    (pc = "return" /\ AllSynthesized /\ BackgroundFailed)
        => /\ ret.kind = "ok"
           /\ CombinedAudio = WithoutBackground

\* a returned call whose uploaded background could not be decoded
C8_Witness ==
    /\ Succeeded
    /\ BackgroundFailed
    /\ uploaded_background.present
    /\ ~uploaded_background.decodes
    /\ bg_env.write_ok


(***************************************************************************)
(* Properties of _load_uploaded_background.                                *)
(***************************************************************************)
\* the uploaded file can be copied and decoded: its name ends in .mp3 or
\* .wav in any case, its bytes decode, and it holds L > 0 milliseconds
LoadableUpload ==
    /\ load_in.write_ok
    /\ load_in.uploaded_file.decodes
    /\ load_in.uploaded_file.name \in { <<"b", "g", ".", "w", "a", "v">>,
                                        <<"b", "g", ".", "M", "P", "3">> }
    /\ load_in.uploaded_file.audio[1].len > 0

\* C7: for a loadable file of length L > 0 and a target T >= 0 the function
\* returns a clip of length exactly T, made of whole copies of the file laid
\* end to end and a last copy cut where T is reached.
C7_LoadedLength ==
    (load_out.called /\ LoadableUpload)
        => LET L == load_in.uploaded_file.audio[1].len
               T == load_in.target_duration_ms
               clip == load_out.ret.audio
           IN /\ load_out.ret.some
              /\ ~load_out.raised
              /\ AudioLen(clip) = T
              /\ \A k \in 1..Len(clip) :
                    /\ clip[k].src = "upload"
                    /\ clip[k].len <= L
                    /\ k < Len(clip) => clip[k].len = L

\* a file of 2 ms looped to a target of 5 ms: two whole copies and a cut one
C7_Witness ==
    /\ load_out.called
    /\ LoadableUpload
    /\ load_in.uploaded_file.audio[1].len = 2
    /\ load_in.target_duration_ms = 5
    /\ Len(load_out.ret.audio) = 3
    /\ load_out.ret.audio[3].len = 1

(***************************************************************************)
(* Properties of ScriptGenerator.                                          *)
(***************************************************************************)
\* the document lacks one of the three keys
MissingField(doc) ==
    \/ doc.title = Absent
    \/ doc.situation = Absent
    \/ doc.conversation.kind = "absent"

\* some entry of the conversation is no record holding speaker and text
EntryLacksField(doc) ==
    \E k \in 1..Len(doc.conversation.items) :
        \/ ~doc.conversation.items[k].isdict
        \/ doc.conversation.items[k].speaker = Absent
        \/ doc.conversation.items[k].text = Absent

\* C9 as stated: validate_script returns a boolean, false when a key is
\* missing or an entry lacks speaker or text, and true for every other
\* document.
C9_ValidateAsStated ==
    validate_ret # "none"
        => /\ validate_ret \in {"True", "False"}
           /\ validate_ret = "False"
                 <=> (MissingField(validate_in) \/ EntryLacksField(validate_in))

\* C9 amended: validate_script returns a boolean and never raises; it
\* returns false when a key is missing, when `conversation` is not a list,
\* or when an entry is not a record holding speaker and text, and true for
\* every other document.
C9_ValidateAmended ==
    validate_ret # "none"
        => /\ validate_ret \in {"True", "False"}
           /\ validate_ret = "False"
                 <=> \/ MissingField(validate_in)
                     \/ validate_in.conversation.kind # "list"
                     \/ EntryLacksField(validate_in)

\* a document with its three keys whose conversation is not a list was
\* found invalid
C9_Witness ==
    /\ validate_ret = "False"
    /\ ~MissingField(validate_in)
    /\ validate_in.conversation.kind = "other"

\* C10: every document generate_script returns has a non-empty conversation
\* made of records that hold speaker and text.
C10_ReturnedDocumentWellFormed ==
    script_ret.kind = "ok"
        => /\ ~MissingField(script_ret.doc)
           /\ script_ret.doc.conversation.kind = "list"
           /\ Len(script_ret.doc.conversation.items) > 0
           /\ ~EntryLacksField(script_ret.doc)

\* C11: as long as no key is available (none given to the constructor, none
\* in the environment, set_api_key not called), no request has been sent to
\* the completion endpoint and every generate_script call so far has raised
\* the key-required error.
C11_NoKeyNoRequest ==
    api_key = ""
        => /\ requests = 0
           /\ script_ret.kind \in {"none", "error"}
           /\ script_ret.kind = "error"
                 => script_ret.error =
                      <<"OpenAI API key is required. Please set your API key first.">>

\* generate_script was called on a generator without a key, and raised
C11_Witness ==
    /\ api_key = ""
    /\ client = "None"
    /\ script_ret.kind = "error"

(***************************************************************************)
(* Properties of the page.                                                 *)
(***************************************************************************)
\* C12: when the audio button was pressed while the Azure key or region is
\* missing, the page shows the credential message and not the raw error
\* text; the raw text is shown only for errors that are neither credential
\* nor rate-limit errors.
C12_CredentialHint ==
    /\ (shown.kind # "none" /\ (azure_speech_key = "" \/ azure_region = ""))
          => shown.kind = "credential"
    /\ shown.kind = "raw"
          => /\ azure_speech_key # "" /\ azure_region # ""
             /\ \A k \in 1..Len(shown.text) :
                    shown.text[k] \notin {"429", "Too Many Requests",
                                          "SPXERR_INVALID_ARG"}

\* C14: the script the session holds has a non-empty conversation whose
\* every line has a non-empty speaker and a non-empty text, whatever scripts
\* were generated and whatever was edited, deleted, added, saved or reverted.
C14_SessionDocumentWellFormed ==
    HasScript(script_data)
        => /\ script_data.conversation.kind = "list"
           /\ Len(script_data.conversation.items) > 0
           /\ \A k \in 1..Len(script_data.conversation.items) :
                LET line == script_data.conversation.items[k]
                IN /\ line.isdict
                   /\ line.speaker \notin {Absent, <<>>}
                   /\ line.text \notin {Absent, <<>>}

(***************************************************************************)
(* Properties of the generator's files.                                    *)
(***************************************************************************)
\* the paths of a result: the combined file and the per-line files
ResultPaths(result) ==
    {result.combined} \cup { result.individual[k] : k \in DOMAIN result.individual }

\* C13: the files of a returned result are removed only by a call of
\* cleanup(): while the caller keeps the result, no step other than that
\* call takes a file of the result from the disk.
C13_FilesOutliveRuns ==
    [][ (ret.kind = "ok" /\ ret' = ret /\ pc' # "cleaned")
            => (ResultPaths(ret) \cap files) \subseteq files' ]_vars

\* C17: when the call returns, every path of the result names a file that
\* exists in the temporary directory, no two entries of the result name the
\* same file, and no per-line path is also the path of the combined file,
\* of a temporary synthesis file of the call or of the copy of the uploaded
\* background, whatever the speaker labels and the name of the upload.
C17_ResultFilesExist ==
    Succeeded =>
        LET per_line == { ret.individual[k] : k \in DOMAIN ret.individual }
            temps == { TempWavFile(LineSpeaker(conversation[k + 1], k), k) :
                         k \in 0..(Len(conversation) - 1) }
            copies == IF add_background /\ uploaded_background.present
                      THEN {TempBgFile(uploaded_background.name)} ELSE {}
        IN /\ \A p \in ResultPaths(ret) :
                p \in files /\ StartsWith(p, temp_dir \o <<"/">>)
           /\ Cardinality(per_line) = Cardinality(DOMAIN ret.individual)
           /\ ret.combined \notin per_line
           /\ per_line \cap (temps \cup copies \cup {CombinedFile}) = {}

====
